---- MODULE Spec2Model ----
(***************************************************************************)
(* Telemetry ingestion, bounded history, alert evaluation and actuator     *)
(* command synchronisation of the exosuit dashboard (src/app.py).          *)
(*                                                                         *)
(* Numbers.  JSON numbers and Python floats are fixed-point values counted *)
(* in units of 1/Scale, so 90.6 is 90 * Scale + 6 (with Scale = 10).       *)
(* Motor setpoints, which the code stores as Python ints, are plain        *)
(* integers.                                                               *)
(***************************************************************************)
EXTENDS Integers, Sequences, FiniteSets, TLC

\* ------------------------------------------------------------------ bounds
Scale == 10          \* fixed-point resolution of a float: units per 1.0
MaxClock == 1        \* the server clock runs from 0 to MaxClock (ms)
MaxReq == 3          \* requests served in one behaviour of Spec
MaxSeqReq == 4       \* requests served in one behaviour of a sequential specification
MaxFillReq == 6      \* ingests served after the pre-filled history of SpecFill
MaxFail == 1         \* commits of a sample the database may refuse
Headroom == 2        \* free slots left in the pre-filled history of SpecFill

\* ------------------------------------------------------- program constants
HISTORY_LEN == 240
MotorMin == 0
MotorMax == 180
NumMotors == 6

THRESHOLDS == [emg |-> 900 * Scale, accel |-> 8 * Scale, gyro |-> 200 * Scale]

Motors == 1..NumMotors
Channels == {"emg", "accel_x", "accel_y", "accel_z", "gyro_x", "gyro_y", "gyro_z"}

\* ------------------------------------------------------------- JSON values
\* A JSON value as the handlers see it after request.get_json: a number, a
\* null (None), the empty string, or a string that is not a number.
Num(n) == [t |-> "num", v |-> n]
Whole(n) == Num(n * Scale)
Null == [t |-> "null", v |-> 0]
EmptyStr == [t |-> "empty", v |-> 0]
Text == [t |-> "text", v |-> 0]

\* Python truthiness of a JSON value: None, 0 and "" are falsy.
Truthy(x) == ~(x.t \in {"null", "empty"} \/ (x.t = "num" /\ x.v = 0))

\* float(x) succeeds on numbers only: float(None) raises TypeError and
\* float("abc"), float("") raise ValueError.
FloatOk(x) == x.t = "num"
FloatOf(x) == x.v

\* int(f) of a float truncates toward zero.
IntOf(f) == IF f >= 0 THEN f \div Scale ELSE -((-f) \div Scale)

Max(a, b) == IF a >= b THEN a ELSE b
Min(a, b) == IF a <= b THEN a ELSE b

\* Mutants of Clamp: one bound of the clamp is missing.
ClampUpperOnly(a) == Min(MotorMax, a)
ClampLowerOnly(a) == Max(MotorMin, a)

\* a = max(0, min(180, a))
Clamp(a) == Max(MotorMin, Min(MotorMax, a))

\* A request body after request.get_json(force=True, silent=True):
\*   kind "invalid" : the body is not JSON, get_json returned None
\*   kind "array"   : valid JSON, a non-empty list
\*   kind "object"  : a JSON object, f maps its keys to their values
Invalid == [kind |-> "invalid", f |-> <<>>]
Array == [kind |-> "array", f |-> <<>>]
Obj(f) == [kind |-> "object", f |-> f]
Has(body, k) == body.kind = "object" /\ k \in DOMAIN body.f

\* Python's "not data": None and the empty containers are falsy.
NotData(body) == body.kind = "invalid" \/ (body.kind = "object" /\ DOMAIN body.f = {})

\* ---------------------------------------------------------------- samples
\* data.get(k, 0) or 0, then float(...): the field's value, 0 when the key
\* is missing or its value is falsy.
FieldOk(body, k) == ~Has(body, k) \/ ~Truthy(body.f[k]) \/ FloatOk(body.f[k])
FieldVal(body, k) == IF Has(body, k) /\ Truthy(body.f[k]) THEN FloatOf(body.f[k]) ELSE 0

\* Building the sample raises on a body that is no object (data.get is
\* missing) and on a field float() rejects.
SampleOk(body) == body.kind = "object" /\ \A k \in Channels : FieldOk(body, k)

MakeSample(body, now) ==
    [ts |-> now,
     emg |-> FieldVal(body, "emg"),
     accel_x |-> FieldVal(body, "accel_x"),
     accel_y |-> FieldVal(body, "accel_y"),
     accel_z |-> FieldVal(body, "accel_z"),
     gyro_x |-> FieldVal(body, "gyro_x"),
     gyro_y |-> FieldVal(body, "gyro_y"),
     gyro_z |-> FieldVal(body, "gyro_z")]

\* The placeholder get_data returns as latest while the history is empty.
ZeroSample(now) ==
    [ts |-> now, emg |-> 0, accel_x |-> 0, accel_y |-> 0, accel_z |-> 0,
     gyro_x |-> 0, gyro_y |-> 0, gyro_z |-> 0]

Abs(x) == IF x >= 0 THEN x ELSE -x

\* Mutant of UpdateAlerts: the comparisons are not strict.
UpdateAlertsInclusive(sample) ==
    (IF sample.emg >= THRESHOLDS.emg THEN <<"High EMG">> ELSE <<>>)
    \o (IF Abs(sample.accel_x) >= THRESHOLDS.accel THEN <<"High Accel X">> ELSE <<>>)
    \o (IF Abs(sample.gyro_y) >= THRESHOLDS.gyro THEN <<"High Gyro Y">> ELSE <<>>)

\* The alert list update_data builds from the sample it ingested.
UpdateAlerts(sample) ==
    (IF sample.emg > THRESHOLDS.emg THEN <<"High EMG">> ELSE <<>>)
    \o (IF Abs(sample.accel_x) > THRESHOLDS.accel THEN <<"High Accel X">> ELSE <<>>)
    \o (IF Abs(sample.gyro_y) > THRESHOLDS.gyro THEN <<"High Gyro Y">> ELSE <<>>)

\* The alert list get_data builds from latest.
SnapshotAlerts(latest) ==
    LET a1 == IF latest.emg > THRESHOLDS.emg THEN <<"High EMG">> ELSE <<>>
        a2 == IF Abs(latest.accel_x) > THRESHOLDS.accel
              THEN Append(a1, "High Accel X") ELSE a1
    IN  IF Abs(latest.gyro_y) > THRESHOLDS.gyro THEN Append(a2, "High Gyro Y") ELSE a2

\* Mutants of DequeAppend: the deque has no maxlen; the sample is put at the
\* left end (appendleft).
DequeUnbounded(h, s) == Append(h, s)
DequeAppendLeft(h, s) ==
    IF Len(h) < HISTORY_LEN THEN <<s>> \o h ELSE <<s>> \o SubSeq(h, 1, Len(h) - 1)

\* collections.deque(maxlen=HISTORY_LEN).append: a full deque drops its
\* leftmost element.
DequeAppend(h, s) ==
    IF Len(h) < HISTORY_LEN THEN Append(h, s) ELSE Append(Tail(h), s)

\* ---------------------------------------------------------- command state
MotorKey(i) ==
    CASE i = 1 -> "motor1" [] i = 2 -> "motor2" [] i = 3 -> "motor3"
      [] i = 4 -> "motor4" [] i = 5 -> "motor5" [] i = 6 -> "motor6"

ZeroCommands == [m \in Motors |-> 0]

\* int(float(v)) inside try/except: a value float() rejects is skipped.
AngleOk(x) == FloatOk(x)
Angle(x) == Clamp(IntOf(FloatOf(x)))

\* Mutant of ApplyAll: a motor_all that is no number counts as 0.
ApplyAllBadZero(cs, body) ==
    IF Has(body, "motor_all")
    THEN IF AngleOk(body.f["motor_all"])
         THEN [m \in Motors |-> Clamp(IntOf(FloatOf(body.f["motor_all"])))]
         ELSE [m \in Motors |-> 0]
    ELSE cs

\* The motor_all branch: every motor is assigned the clamped angle.
ApplyAll(cs, body) ==
    IF Has(body, "motor_all") /\ AngleOk(body.f["motor_all"])
    THEN [m \in Motors |-> Angle(body.f["motor_all"])]
    ELSE cs

\* Mutants of ApplyOne: a missing key resets the motor to 0 (data.get(key, 0)
\* in place of the "key in data" test); the value lands on the next motor.
ApplyOneDefault(cs, body, i) ==
    IF Has(body, MotorKey(i))
    THEN IF AngleOk(body.f[MotorKey(i)])
         THEN [cs EXCEPT ![i] = Clamp(IntOf(FloatOf(body.f[MotorKey(i)])))]
         ELSE cs
    ELSE [cs EXCEPT ![i] = 0]
ApplyOneNext(cs, body, i) ==
    IF Has(body, MotorKey(i)) /\ AngleOk(body.f[MotorKey(i)])
    THEN [cs EXCEPT ![(i % NumMotors) + 1] = Clamp(IntOf(FloatOf(body.f[MotorKey(i)])))]
    ELSE cs

\* One turn of the loop over range(1,7): setattr(cs, key, a).
ApplyOne(cs, body, i) ==
    IF Has(body, MotorKey(i)) /\ AngleOk(body.f[MotorKey(i)])
    THEN [cs EXCEPT ![i] = Angle(body.f[MotorKey(i)])]
    ELSE cs

RECURSIVE ApplyLoop(_, _, _)
ApplyLoop(cs, body, i) ==
    IF i > NumMotors THEN cs ELSE ApplyLoop(ApplyOne(cs, body, i), body, i + 1)

\* The attribute values of cs after the motor_all branch and the loop.
ApplyBody(cs, body) == ApplyLoop(ApplyAll(cs, body), body, 1)

\* The flag "changed": some recognised key carried a usable value.
Changed(body) ==
    \/ Has(body, "motor_all") /\ AngleOk(body.f["motor_all"])
    \/ \E i \in Motors : Has(body, MotorKey(i)) /\ AngleOk(body.f[MotorKey(i)])

\* db.session.commit() of the unit of work: the UPDATE sets the columns whose
\* attribute value differs from the value loaded, and no other column.
Flush(row, loaded, cs) ==
    [m \in Motors |-> IF cs[m] # loaded[m] THEN cs[m] ELSE row[m]]

\* ------------------------------------------------------------------ state
Procs == {"h1", "h2", "h3"}     \* request-handling threads of the threaded server
NoProc == "none"

VARIABLES
    sensor_history,   \* the deque of recent samples
    command_row,      \* the committed CommandState row: motor number -> setpoint
    sensor_rows,      \* the committed SensorData rows, in commit order
    lock,             \* the holder of the threading.Lock, or NoProc
    clock,            \* int(time.time()*1000)
    pc,               \* per handler thread: where it stands in its handler
    req,              \* per handler thread: the request it serves or served last
    loc,              \* per handler thread: the handler's local variables
    resp,             \* per handler thread: the response to req, once sent
    nreq,             \* requests accepted so far
    nfail             \* commits of a sample the database has refused so far

vars == <<sensor_history, command_row, sensor_rows, lock, clock, pc, req, loc, resp,
          nreq, nfail>>

NoSample == ZeroSample(0)
NoReq == [kind |-> "none", role |-> "anon", body |-> Invalid, seq |-> 0]
NoLoc == [sample |-> NoSample, history |-> <<>>, latest |-> NoSample,
          loaded |-> ZeroCommands, cs |-> ZeroCommands]
NoResp == [code |-> 0, status |-> "", alerts |-> <<>>, history |-> <<>>,
           latest |-> NoSample, commands |-> ZeroCommands]

\* The state after start-up: db.create_all() and ensure_command_row() have
\* run, the deque is empty and no request has arrived.
Init ==
    /\ sensor_history = <<>>
    /\ command_row = ZeroCommands
    /\ sensor_rows = <<>>
    /\ lock = NoProc
    /\ clock = 0
    /\ pc = [p \in Procs |-> "idle"]
    /\ req = [p \in Procs |-> NoReq]
    /\ loc = [p \in Procs |-> NoLoc]
    /\ resp = [p \in Procs |-> NoResp]
    /\ nreq = 0
    /\ nfail = 0

Reply(code, status) == [NoResp EXCEPT !.code = code, !.status = status]

\* A handler thread takes a request: the previous response is forgotten.
Accept(p, kind, role, body) ==
    /\ pc[p] = "idle"
    /\ nreq' = nreq + 1
    /\ req' = [req EXCEPT ![p] = [kind |-> kind, role |-> role, body |-> body,
                                  seq |-> nreq + 1]]

\* The handler returns: its locals are gone, the response is out.
Return(p, r) ==
    /\ pc' = [pc EXCEPT ![p] = "idle"]
    /\ loc' = [loc EXCEPT ![p] = NoLoc]
    /\ resp' = [resp EXCEPT ![p] = r]

Goto(p, label) == pc' = [pc EXCEPT ![p] = label]

\* time.time() advances.
Tick ==
    /\ clock < MaxClock
    /\ clock' = clock + 1
    /\ UNCHANGED <<sensor_history, command_row, sensor_rows, lock, pc, req, loc, resp,
                   nreq, nfail>>

\* ------------------------------------------------------------ update_data
\* POST /update_data up to the "with lock": get_json, the "not data" test and
\* the construction of the sample, stamped with the clock.
UpdateDataBegin(p, body) ==
    /\ Accept(p, "update_data", "anon", body)
    /\ IF NotData(body)
       THEN Return(p, Reply(400, "invalid json"))
       ELSE IF ~SampleOk(body)
       THEN Return(p, Reply(500, "unhandled"))
       ELSE /\ Goto(p, "ud_lock")
            /\ loc' = [loc EXCEPT ![p].sample = MakeSample(body, clock)]
            /\ resp' = [resp EXCEPT ![p] = NoResp]
    /\ UNCHANGED <<sensor_history, command_row, sensor_rows, lock, clock, nfail>>

\* "with lock:" is entered and the sample is appended to the deque.
UpdateDataAppend(p) ==
    /\ pc[p] = "ud_lock"
    /\ lock = NoProc
    /\ lock' = p
    /\ sensor_history' = DequeAppend(sensor_history, loc[p].sample)
    /\ Goto(p, "ud_commit")
    /\ UNCHANGED <<command_row, sensor_rows, clock, req, loc, resp, nreq, nfail>>

\* db.session.add(sd); db.session.commit() succeed, the lock is released,
\* the alerts are computed and the response is sent.
UpdateDataCommit(p) ==
    /\ pc[p] = "ud_commit"
    /\ sensor_rows' = Append(sensor_rows, loc[p].sample)
    /\ lock' = NoProc
    /\ Return(p, [Reply(200, "ok") EXCEPT !.alerts = UpdateAlerts(loc[p].sample)])
    /\ UNCHANGED <<sensor_history, command_row, clock, req, nreq, nfail>>

\* Mutant of UpdateDataCommitFail: the lock stays with the handler (an
\* acquire() whose release() the exception skips).
UpdateDataCommitFailHeld(p) ==
    /\ pc[p] = "ud_commit"
    /\ nfail < MaxFail
    /\ nfail' = nfail + 1
    /\ lock' = lock
    /\ Return(p, Reply(500, "unhandled"))
    /\ UNCHANGED <<sensor_history, command_row, sensor_rows, clock, req, nreq>>

\* db.session.commit() raises (the database is locked or unavailable): the
\* exception leaves the with block, which releases the lock, and the request
\* ends as an unhandled error.
UpdateDataCommitFail(p) ==
    /\ pc[p] = "ud_commit"
    /\ nfail < MaxFail
    /\ nfail' = nfail + 1
    /\ lock' = NoProc
    /\ Return(p, Reply(500, "unhandled"))
    /\ UNCHANGED <<sensor_history, command_row, sensor_rows, clock, req, nreq>>

\* --------------------------------------------------------------- get_data
\* GET /get_data up to the "with lock": login_required.
GetDataBegin(p, role) ==
    /\ Accept(p, "get_data", role, Invalid)
    /\ IF role = "anon"
       THEN Return(p, Reply(302, "login"))
       ELSE /\ Goto(p, "gd_lock")
            /\ loc' = loc
            /\ resp' = [resp EXCEPT ![p] = NoResp]
    /\ UNCHANGED <<sensor_history, command_row, sensor_rows, lock, clock, nfail>>

\* Mutant of GetDataSnapshot: latest is the placeholder whatever the deque
\* holds.
GetDataSnapshotPlaceholder(p) ==
    /\ pc[p] = "gd_lock"
    /\ lock = NoProc
    /\ lock' = p
    /\ loc' = [loc EXCEPT ![p].history = sensor_history,
                          ![p].latest = ZeroSample(clock)]
    /\ Goto(p, "gd_query")
    /\ UNCHANGED <<sensor_history, command_row, sensor_rows, clock, req, resp, nreq, nfail>>

\* Mutant of GetDataSnapshot: latest is history[0], the oldest sample.
GetDataSnapshotOldest(p) ==
    /\ pc[p] = "gd_lock"
    /\ lock = NoProc
    /\ lock' = p
    /\ loc' = [loc EXCEPT ![p].history = sensor_history,
                          ![p].latest = IF sensor_history # <<>>
                                        THEN sensor_history[1]
                                        ELSE ZeroSample(clock)]
    /\ Goto(p, "gd_query")
    /\ UNCHANGED <<sensor_history, command_row, sensor_rows, clock, req, resp, nreq, nfail>>

\* "with lock:" is entered; history and latest are taken from the deque.
GetDataSnapshot(p) ==
    /\ pc[p] = "gd_lock"
    /\ lock = NoProc
    /\ lock' = p
    /\ loc' = [loc EXCEPT ![p].history = sensor_history,
                          ![p].latest = IF sensor_history # <<>>
                                        THEN sensor_history[Len(sensor_history)]
                                        ELSE ZeroSample(clock)]
    /\ Goto(p, "gd_query")
    /\ UNCHANGED <<sensor_history, command_row, sensor_rows, clock, req, resp, nreq, nfail>>

\* Mutant of GetDataQuery: the alerts are those of the oldest sample of the
\* history.
GetDataQueryOldestAlerts(p) ==
    /\ pc[p] = "gd_query"
    /\ lock' = NoProc
    /\ Return(p, [Reply(200, "ok") EXCEPT !.history = loc[p].history,
                                          !.latest = loc[p].latest,
                                          !.commands = command_row,
                                          !.alerts = SnapshotAlerts(
                                              IF loc[p].history # <<>>
                                              THEN loc[p].history[1]
                                              ELSE loc[p].latest)])
    /\ UNCHANGED <<sensor_history, command_row, sensor_rows, clock, req, nreq, nfail>>

\* CommandState.query.first() inside the lock, then the lock is released,
\* the alerts of latest are computed and the response is sent.
GetDataQuery(p) ==
    /\ pc[p] = "gd_query"
    /\ lock' = NoProc
    /\ Return(p, [Reply(200, "ok") EXCEPT !.history = loc[p].history,
                                          !.latest = loc[p].latest,
                                          !.commands = command_row,
                                          !.alerts = SnapshotAlerts(loc[p].latest)])
    /\ UNCHANGED <<sensor_history, command_row, sensor_rows, clock, req, nreq, nfail>>

\* CommandState.query.first() or the query of the notes raises inside the
\* lock: the exception leaves the with block, which releases the lock, and
\* the request ends as an unhandled error.
GetDataQueryFail(p) ==
    /\ pc[p] = "gd_query"
    /\ lock' = NoProc
    /\ Return(p, Reply(500, "unhandled"))
    /\ UNCHANGED <<sensor_history, command_row, sensor_rows, clock, req, nreq, nfail>>

\* ------------------------------------------------------------ get_command
\* GET /get_command: one query of the row, no login and no lock.
GetCommand(p) ==
    /\ Accept(p, "get_command", "anon", Invalid)
    /\ Return(p, [Reply(200, "ok") EXCEPT !.commands = command_row])
    /\ UNCHANGED <<sensor_history, command_row, sensor_rows, lock, clock, nfail>>

\* ------------------------------------------------------------ set_command
\* Mutant of SetCommandBegin: the role test is missing, any logged-in user
\* may write.
SetCommandBeginAnyRole(p, role, body) ==
    /\ Accept(p, "set_command", role, body)
    /\ IF role = "anon"
       THEN Return(p, Reply(302, "login"))
       ELSE IF NotData(body)
       THEN Return(p, Reply(400, "no json"))
       ELSE /\ Goto(p, "sc_load")
            /\ loc' = loc
            /\ resp' = [resp EXCEPT ![p] = NoResp]
    /\ UNCHANGED <<sensor_history, command_row, sensor_rows, lock, clock, nfail>>

\* POST /set_command up to the query: login_required, the role test, get_json
\* and the "not data" test.
SetCommandBegin(p, role, body) ==
    /\ Accept(p, "set_command", role, body)
    /\ IF role = "anon"
       THEN Return(p, Reply(302, "login"))
       ELSE IF role # "therapist"
       THEN Return(p, Reply(403, "forbidden"))
       ELSE IF NotData(body)
       THEN Return(p, Reply(400, "no json"))
       ELSE /\ Goto(p, "sc_load")
            /\ loc' = loc
            /\ resp' = [resp EXCEPT ![p] = NoResp]
    /\ UNCHANGED <<sensor_history, command_row, sensor_rows, lock, clock, nfail>>

\* cs = CommandState.query.first(), then the motor_all branch and the loop
\* set attributes of cs.  With "changed" unset the handler answers at once
\* with the attributes of cs.
SetCommandLoad(p) ==
    /\ pc[p] = "sc_load"
    /\ IF Changed(req[p].body)
       THEN /\ loc' = [loc EXCEPT ![p].loaded = command_row,
                                  ![p].cs = ApplyBody(command_row, req[p].body)]
            /\ Goto(p, "sc_commit")
            /\ resp' = resp
       ELSE Return(p, [Reply(200, "ok") EXCEPT
                         !.commands = ApplyBody(command_row, req[p].body)])
    /\ UNCHANGED <<sensor_history, command_row, sensor_rows, lock, clock, req, nreq, nfail>>

\* db.session.commit(): the changed columns are written; the attributes of
\* cs are expired.
SetCommandCommit(p) ==
    /\ pc[p] = "sc_commit"
    /\ command_row' = Flush(command_row, loc[p].loaded, loc[p].cs)
    /\ Goto(p, "sc_reply")
    /\ UNCHANGED <<sensor_history, sensor_rows, lock, clock, req, loc, resp, nreq, nfail>>

\* Mutant of SetCommandReply: the response carries the setpoints as they
\* were loaded, before the write.
SetCommandReplyLoaded(p) ==
    /\ pc[p] = "sc_reply"
    /\ Return(p, [Reply(200, "ok") EXCEPT !.commands = loc[p].loaded])
    /\ UNCHANGED <<sensor_history, command_row, sensor_rows, lock, clock, req, nreq, nfail>>

\* jsonify(... cs.motor1 ...): the expired attributes are loaded again from
\* the row, and the response is sent.
SetCommandReply(p) ==
    /\ pc[p] = "sc_reply"
    /\ Return(p, [Reply(200, "ok") EXCEPT !.commands = command_row])
    /\ UNCHANGED <<sensor_history, command_row, sensor_rows, lock, clock, req, nreq, nfail>>

\* ----------------------------------------------------------------- inputs
\* The end-to-end sample of the specification: emg 950, accel_x 2, gyro_y 10.
E2EBody == Obj([k \in {"emg", "accel_x", "gyro_y"} |->
                 CASE k = "emg" -> Whole(950) [] k = "accel_x" -> Whole(2)
                   [] k = "gyro_y" -> Whole(10)])
One(k, x) == Obj([j \in {k} |-> x])
Two(k1, x1, k2, x2) == Obj([j \in {k1, k2} |-> IF j = k1 THEN x1 ELSE x2])
EmptyObj == Obj([j \in {} |-> Null])

Roles == {"anon", "patient", "therapist"}

\* Requests of the concurrent specification.
IngestBodies == {E2EBody}
ReaderRoles == {"patient"}
CommandBodies ==
    {One("motor_all", Whole(45)), One("motor_all", Whole(300)),
     One("motor1", Whole(45)), One("motor2", Whole(-50)),
     Two("motor_all", Whole(90), "motor3", Whole(45)),
     Two("motor_all", Whole(0), "motor1", Whole(45)),
     One("motor_9", Whole(10))}
CommandRoles == {"therapist", "patient"}

\* ------------------------------------------------------ the specification
\* Two handler threads; either may take any request while the other is under
\* way.
Workers == {"h1", "h2"}

Next ==
    \/ \E p \in Workers, b \in IngestBodies : nreq < MaxReq /\ UpdateDataBegin(p, b)
    \/ \E p \in Workers : UpdateDataAppend(p)
    \/ \E p \in Workers : UpdateDataCommit(p)
    \/ \E p \in Workers : UpdateDataCommitFail(p)
    \/ \E p \in Workers, r \in ReaderRoles : nreq < MaxReq /\ GetDataBegin(p, r)
    \/ \E p \in Workers : GetDataSnapshot(p)
    \/ \E p \in Workers : GetDataQuery(p)
    \/ \E p \in Workers : nreq < MaxReq /\ GetCommand(p)
    \/ \E p \in Workers, r \in CommandRoles, b \in CommandBodies :
          nreq < MaxReq /\ SetCommandBegin(p, r, b)
    \/ \E p \in Workers : SetCommandLoad(p)
    \/ \E p \in Workers : SetCommandCommit(p)
    \/ \E p \in Workers : SetCommandReply(p)

Spec == Init /\ [][Next]_vars

\* ------------------------------------------- sequential specifications
\* One client at a time: a request is taken only when no handler is under
\* way, handler threads take turns, and the client alternates writes (even
\* turns) with reads (odd turns), so that a write's request and response and
\* the reads before and after it are all in the state.
AllIdle == \A p \in Procs : pc[p] = "idle"
Dispatch(n) == CASE n % 3 = 0 -> "h1" [] n % 3 = 1 -> "h2" [] OTHER -> "h3"
ReadTurn(p) == AllIdle /\ nreq < MaxSeqReq /\ nreq % 2 = 1 /\ p = Dispatch(nreq)
WriteTurn(p) == AllIdle /\ nreq < MaxSeqReq /\ nreq % 2 = 0 /\ p = Dispatch(nreq)

\* The angles of a command: in range, out of range, fractional, not a number.
Angles ==
    {Whole(-50), Whole(0), Whole(90), Whole(180), Whole(300),
     Num(90 * Scale + 6), Num(-6), Text, Null}
CommandKeys == {MotorKey(i) : i \in Motors} \cup {"motor_all"}
WideCommandBodies ==
    {One(k, x) : k \in CommandKeys, x \in Angles}
    \cup {One(k, x) : k \in {"motor_9", "motor_1"}, x \in {Whole(90), Text}}
    \cup {Two("motor_all", x, "motor2", y) : x, y \in {Whole(90), Whole(300), Text}}
    \cup {One("motor_9", Whole(10)), EmptyObj, Invalid, Array}

\* Unauthorized callers send a sample of the bodies.
DeniedBodies ==
    {One("motor_all", Whole(90)), One("motor1", Whole(300)), One("motor_9", Whole(10)),
     EmptyObj, Invalid}

NextCmd ==
    \/ \E p \in Procs : ReadTurn(p) /\ GetCommand(p)
    \/ \E p \in Procs : ReadTurn(p) /\ GetDataBegin(p, "patient")
    \/ \E p \in Procs : GetDataSnapshot(p)
    \/ \E p \in Procs : GetDataQuery(p)
    \/ \E p \in Procs : WriteTurn(p) /\ \E b \in WideCommandBodies :
          SetCommandBegin(p, "therapist", b)
    \/ \E p \in Procs : WriteTurn(p) /\ \E r \in Roles \ {"therapist"}, b \in DeniedBodies :
          SetCommandBegin(p, r, b)
    \/ \E p \in Procs : SetCommandLoad(p)
    \/ \E p \in Procs : SetCommandCommit(p)
    \/ \E p \in Procs : SetCommandReply(p)

SpecCmd == Init /\ [][NextCmd]_vars

\* Ingests and snapshots of one client at a time: ingests on the even turns,
\* snapshots on the odd ones.  The bodies: the end-to-end sample, every
\* channel alone and every channel missing, values at and beside each
\* threshold, falsy and non-numeric values, and bodies that are no object.
Loud == Whole(1000)
SubsetBodies ==
    {Obj([k \in S |-> Loud]) : S \in {T \in SUBSET Channels : Cardinality(T) \in {0, 1, 6, 7}}}
ProbeBodies ==
    {One("emg", Whole(n)) : n \in {899, 900, 901}}
    \cup {One("accel_x", x) : x \in {Whole(8), Whole(-8), Num(8 * Scale + 1), Whole(-9)}}
    \cup {One("gyro_y", Whole(n)) : n \in {200, -200, 201, -201}}
OddBodies ==
    {One("emg", Null), One("emg", EmptyStr), One("emg", Whole(0)), One("emg", Text),
     Two("emg", Whole(950), "accel_x", Text), Array, Invalid}
WideIngestBodies == SubsetBodies \cup ProbeBodies \cup OddBodies \cup {E2EBody}

NextIngest ==
    \/ \E p \in Procs : ReadTurn(p) /\ GetDataBegin(p, "patient")
    \/ \E p \in Procs : GetDataSnapshot(p)
    \/ \E p \in Procs : GetDataQuery(p)
    \/ \E p \in Procs : WriteTurn(p) /\ \E b \in WideIngestBodies : UpdateDataBegin(p, b)
    \/ \E p \in Procs : UpdateDataAppend(p)
    \/ \E p \in Procs : UpdateDataCommit(p)
    \/ \E p \in Procs : UpdateDataCommitFail(p)

SpecIngest == Init /\ [][NextIngest]_vars

\* A long-running server: HISTORY_LEN - Headroom ingests {emg: i/Scale},
\* i = 1, 2, ..., have been served one after the other at clock 0, so the
\* deque is nearly full; then one client at a time ingests or takes a snapshot.
Prefill == HISTORY_LEN - Headroom
PrefillSample(i) == MakeSample(One("emg", Num(i)), 0)
FillBodies == {E2EBody}

InitFill ==
    /\ sensor_history = [i \in 1..Prefill |-> PrefillSample(i)]
    /\ sensor_rows = [i \in 1..Prefill |-> PrefillSample(i)]
    /\ command_row = ZeroCommands
    /\ lock = NoProc
    /\ clock = 0
    /\ pc = [p \in Procs |-> "idle"]
    /\ req = [p \in Procs |-> NoReq]
    /\ loc = [p \in Procs |-> NoLoc]
    /\ resp = [p \in Procs |-> NoResp]
    /\ nreq = Prefill
    /\ nfail = 0

FillTurn(p) == AllIdle /\ nreq < Prefill + MaxFillReq /\ p = Dispatch(nreq)

NextFill ==
    \/ AllIdle /\ Tick
    \/ \E p \in Procs : FillTurn(p) /\ GetDataBegin(p, "patient")
    \/ \E p \in Procs : GetDataSnapshot(p)
    \/ \E p \in Procs : GetDataQuery(p)
    \/ \E p \in Procs : FillTurn(p) /\ \E b \in FillBodies : UpdateDataBegin(p, b)
    \/ \E p \in Procs : UpdateDataAppend(p)
    \/ \E p \in Procs : UpdateDataCommit(p)
    \/ \E p \in Procs : UpdateDataCommitFail(p)

SpecFill == InitFill /\ [][NextFill]_vars

\* ------------------------------------------------- the live path, threaded
\* Ingests and snapshots served by two threads of the server in any
\* interleaving while the clock advances: a sample is stamped when its
\* request is read and appended when its thread gets the lock.
LiveBodies == {E2EBody, One("accel_x", Whole(-9))}

NextLive ==
    \/ Tick
    \/ \E p \in Workers, b \in LiveBodies : nreq < MaxReq /\ UpdateDataBegin(p, b)
    \/ \E p \in Workers : UpdateDataAppend(p)
    \/ \E p \in Workers : UpdateDataCommit(p)
    \/ \E p \in Workers : UpdateDataCommitFail(p)
    \/ \E p \in Workers : nreq < MaxReq /\ GetDataBegin(p, "patient")
    \/ \E p \in Workers : GetDataSnapshot(p)
    \/ \E p \in Workers : GetDataQuery(p)

SpecLive == Init /\ [][NextLive]_vars

\* ------------------------------------ the live path, threaded and scheduled
\* The two threads with database calls that may raise, under the scheduling
\* of the server: a thread that can take its next step inside a handler takes
\* it (a call to the database returns or raises, a thread waiting for a lock
\* that stays free gets it).
HandlerStep(p) ==
    \/ UpdateDataAppend(p)
    \/ UpdateDataCommit(p)
    \/ UpdateDataCommitFail(p)
    \/ GetDataSnapshot(p)
    \/ GetDataQuery(p)
    \/ GetDataQueryFail(p)

NextFair ==
    \/ \E p \in Workers, b \in IngestBodies : nreq < MaxReq /\ UpdateDataBegin(p, b)
    \/ \E p \in Workers : UpdateDataAppend(p)
    \/ \E p \in Workers : UpdateDataCommit(p)
    \/ \E p \in Workers : UpdateDataCommitFail(p)
    \/ \E p \in Workers : nreq < MaxReq /\ GetDataBegin(p, "patient")
    \/ \E p \in Workers : GetDataSnapshot(p)
    \/ \E p \in Workers : GetDataQuery(p)
    \/ \E p \in Workers : GetDataQueryFail(p)

SpecFair == Init /\ [][NextFair]_vars /\ \A p \in Workers : WF_vars(HandlerStep(p))

\* ================================================================ claims
Served(p) == pc[p] = "idle" /\ resp[p].code # 0
IsRead(p) == Served(p) /\ req[p].kind \in {"get_command", "get_data"} /\ resp[p].code = 200
IsWrite(p) == Served(p) /\ req[p].kind = "set_command"
Follows(q, p) == req[q].seq = req[p].seq + 1

\* The request body {k: x} and nothing else.
IsOne(body, k) == body.kind = "object" /\ DOMAIN body.f = {k}

\* round(f): the nearest integer, halves upward.
RoundOf(f) == (2 * f + Scale) \div (2 * Scale)

\* trunc(f): the integer part, the fraction dropped toward zero.
TruncOf(f) == IF f >= 0 THEN f \div Scale ELSE (f + Scale - 1) \div Scale

\* clamp(a, 0, 180)
Clamped(a) == IF a < 0 THEN 0 ELSE IF a > 180 THEN 180 ELSE a

\* The per-motor keys as the specification spells them.
SpecMotorKey(i) ==
    CASE i = 1 -> "motor_1" [] i = 2 -> "motor_2" [] i = 3 -> "motor_3"
      [] i = 4 -> "motor_4" [] i = 5 -> "motor_5" [] i = 6 -> "motor_6"

\* A therapist's served write of {key: x}, x a number, and the read served
\* right after it.
WriteThenRead(w, r, key) ==
    /\ IsWrite(w) /\ req[w].role = "therapist" /\ IsOne(req[w].body, key)
    /\ req[w].body.f[key].t = "num"
    /\ IsRead(r) /\ Follows(r, w)

\* C2 as stated: a therapist's write of a numeric angle to motor m, followed
\* by a read, yields clamp(round(angle), 0, 180) for motor m.
C2_RoundedClamp ==
    \A w \in Procs, m \in Motors :
        (IsWrite(w) /\ req[w].role = "therapist" /\ IsOne(req[w].body, MotorKey(m))
           /\ req[w].body.f[MotorKey(m)].t = "num") =>
            \A r \in Procs :
                (IsRead(r) /\ Follows(r, w)) =>
                    resp[r].commands[m] = Clamped(RoundOf(req[w].body.f[MotorKey(m)].v))

\* C2 amended: a therapist's write of a numeric angle to motor m, followed by
\* a read, yields clamp(trunc(angle), 0, 180) for motor m, trunc dropping the
\* fraction (toward zero); the write's own response carries the same value.
C2_TruncatedClamp ==
    \A w \in Procs, m \in Motors :
        (IsWrite(w) /\ req[w].role = "therapist" /\ IsOne(req[w].body, MotorKey(m))
           /\ req[w].body.f[MotorKey(m)].t = "num") =>
            \A r \in Procs :
                (IsRead(r) /\ Follows(r, w)) =>
                    /\ resp[r].commands[m] = Clamped(TruncOf(req[w].body.f[MotorKey(m)].v))
                    /\ resp[w].commands[m] = resp[r].commands[m]

\* The angles 90.6 and 300 have been written and read back as 90 and 180.
C2_Witness ==
    \E w, r \in Procs :
        /\ WriteThenRead(w, r, "motor2")
        /\ req[w].body.f["motor2"] = Num(90 * Scale + 6)
        /\ resp[r].commands[2] = 90
        /\ resp[r].commands[1] = MotorMax

\* A read, the write served right after it, and the read served right after
\* the write.
ReadWriteRead(b, w, a) ==
    IsRead(b) /\ IsWrite(w) /\ IsRead(a) /\ Follows(w, b) /\ Follows(a, w)

RecognisedKeys == {"motor_all"} \cup {MotorKey(i) : i \in Motors}
OnlyUnknownKeys(body) ==
    body.kind = "object" /\ DOMAIN body.f # {} /\ DOMAIN body.f \cap RecognisedKeys = {}

\* C5: a therapist's set_command whose body has only unrecognised keys
\* answers 200 with status ok and leaves the six setpoints as they were: the
\* reads before and after it, and its own response, carry the same values.
C5_UnknownKeysIgnored ==
    \A w \in Procs :
        (IsWrite(w) /\ req[w].role = "therapist" /\ OnlyUnknownKeys(req[w].body)) =>
            /\ resp[w].code = 200 /\ resp[w].status = "ok"
            /\ \A b, a \in Procs :
                  ReadWriteRead(b, w, a) =>
                      /\ resp[w].commands = resp[b].commands
                      /\ resp[a].commands = resp[b].commands

\* {motor_9: 10} has been served while some setpoint was not 0.
C5_Witness ==
    \E b, w, a \in Procs :
        /\ ReadWriteRead(b, w, a) /\ req[w].role = "therapist"
        /\ req[w].body = One("motor_9", Whole(10))
        /\ resp[b].commands # ZeroCommands
        /\ resp[a].commands = resp[b].commands

\* C6: a set_command of a caller who is no therapist is refused (a logged-in
\* caller with 403 forbidden, a caller without a session with the redirect to
\* the login page), never gets as far as the command row, and the reads
\* before and after it return the same six values.
C6_UnauthorizedWriteRefused ==
    /\ \A p \in Procs :
          pc[p] \in {"sc_load", "sc_commit", "sc_reply"} => req[p].role = "therapist"
    /\ \A w \in Procs :
          (IsWrite(w) /\ req[w].role # "therapist") =>
              /\ resp[w].code = IF req[w].role = "anon" THEN 302 ELSE 403
              /\ \A b, a \in Procs :
                    ReadWriteRead(b, w, a) => resp[a].commands = resp[b].commands

\* A patient's {motor1: 300} has been refused while some setpoint was not 0.
C6_Witness ==
    \E b, w, a \in Procs :
        /\ ReadWriteRead(b, w, a) /\ req[w].role = "patient"
        /\ req[w].body = One("motor1", Whole(300))
        /\ resp[w].code = 403
        /\ resp[b].commands # ZeroCommands
        /\ resp[a].commands = resp[b].commands

\* C9 as stated: a therapist's {motor_k: a}, a a number, sets motor k to the
\* clamped a and leaves the other five motors as they were.
C9_UnderscoreKeys ==
    \A w \in Procs :
        (IsWrite(w) /\ req[w].role = "therapist") =>
            \A k \in Motors :
                (IsOne(req[w].body, SpecMotorKey(k)) /\ req[w].body.f[SpecMotorKey(k)].t = "num") =>
                    \A b, a \in Procs :
                        ReadWriteRead(b, w, a) =>
                            resp[a].commands =
                                [resp[b].commands EXCEPT
                                   ![k] = Clamped(TruncOf(req[w].body.f[SpecMotorKey(k)].v))]

\* C9 amended: the per-motor keys are motor1 .. motor6; a therapist's
\* {motork: a}, a a number, sets motor k to clamp(trunc(a), 0, 180) and leaves
\* the other five motors as they were, and a body {motor_k: a} changes none.
C9_MotorKeys ==
    \A w \in Procs :
        (IsWrite(w) /\ req[w].role = "therapist") =>
            \A k \in Motors :
                /\ (IsOne(req[w].body, MotorKey(k)) /\ req[w].body.f[MotorKey(k)].t = "num") =>
                      \A b, a \in Procs :
                          ReadWriteRead(b, w, a) =>
                              resp[a].commands =
                                  [resp[b].commands EXCEPT
                                     ![k] = Clamped(TruncOf(req[w].body.f[MotorKey(k)].v))]
                /\ (IsOne(req[w].body, SpecMotorKey(k))
                      /\ req[w].body.f[SpecMotorKey(k)].t = "num") =>
                      \A b, a \in Procs :
                          ReadWriteRead(b, w, a) => resp[a].commands = resp[b].commands

\* {motor4: 90} has been served while another setpoint was not 0.
C9_Witness ==
    \E b, w, a \in Procs :
        /\ ReadWriteRead(b, w, a) /\ WriteThenRead(w, a, "motor4")
        /\ req[w].body.f["motor4"] = Whole(90)
        /\ resp[b].commands[4] = 0
        /\ resp[b].commands[2] = MotorMax
        /\ resp[a].commands = [resp[b].commands EXCEPT ![4] = 90]

\* C3: in every reachable state each of the six setpoints of the command row
\* is an integer from 0 to 180, and so is each setpoint a response carries.
C3_SetpointsInRange ==
    /\ \A m \in Motors : command_row[m] \in MotorMin..MotorMax
    /\ \A p \in Procs, m \in Motors : resp[p].commands[m] \in MotorMin..MotorMax

\* {motor_all: 300} has been committed as 180 while another write is under way.
C3_Witness ==
    \E p, q \in Procs :
        /\ pc[p] = "sc_reply" /\ req[p].body = One("motor_all", Whole(300))
        /\ pc[q] = "sc_commit"
        /\ \A m \in Motors : command_row[m] = MotorMax

\* C4: the commit of a set_command whose body is {motor_all: a}, a a number,
\* leaves all six setpoints at the clamped a, whatever other requests are
\* under way: no reader finds some motors updated by the call and others not.
C4_WriteAllAtomic ==
    [][\A p \in Procs :
          (pc[p] = "sc_commit" /\ pc'[p] = "sc_reply" /\ IsOne(req[p].body, "motor_all")
             /\ req[p].body.f["motor_all"].t = "num")
              => \A m \in Motors : command_row'[m] = Clamped(TruncOf(req[p].body.f["motor_all"].v))]_vars

\* The last n elements of a sequence (all of it when it is shorter).
LastN(q, n) == IF Len(q) <= n THEN q ELSE SubSeq(q, Len(q) - n + 1, Len(q))

IsSnapshot(r) == IsRead(r) /\ req[r].kind = "get_data"

\* C1: with no ingest refused by the database, the samples of the N ingests
\* served so far being sensor_rows, the deque holds the last min(N, 240) of
\* them in arrival order and never more than 240, a snapshot taken since the
\* last ingest returns exactly that, and an ingest into the full deque drops
\* the oldest sample and no other.
C1_HistoryIsLastSamples ==
    /\ [](Len(sensor_history) <= HISTORY_LEN)
    /\ []((lock = NoProc /\ nfail = 0) =>
             sensor_history = LastN(sensor_rows, HISTORY_LEN))
    /\ [](\A r \in Procs :
             (IsSnapshot(r) /\ req[r].seq = nreq /\ nfail = 0) =>
                 /\ resp[r].history = LastN(sensor_rows, HISTORY_LEN)
                 /\ Len(resp[r].history) <= HISTORY_LEN)
    /\ [][(Len(sensor_history) = HISTORY_LEN /\ sensor_history' # sensor_history) =>
             /\ Len(sensor_history') = HISTORY_LEN
             /\ SubSeq(sensor_history', 1, HISTORY_LEN - 1) = Tail(sensor_history)]_vars

\* More than 240 ingests have been served and a snapshot taken after them
\* has 240 samples, the oldest ingests gone.
C1_Witness ==
    \E r \in Procs :
        /\ IsSnapshot(r) /\ req[r].seq = nreq /\ nfail = 0
        /\ Len(sensor_rows) > HISTORY_LEN + 1
        /\ Len(resp[r].history) = HISTORY_LEN
        /\ resp[r].history[1] = sensor_rows[Len(sensor_rows) - HISTORY_LEN + 1]
        /\ resp[r].history[1] # sensor_rows[1]

IsIngest(i) == Served(i) /\ req[i].kind = "update_data"
Range(q) == {q[n] : n \in 1..Len(q)}

\* The value of channel k an ingest of body must record: the number sent,
\* 0 for a channel not sent.
Sent(body, k) == IF k \in DOMAIN body.f THEN body.f[k].v ELSE 0

\* C7: a snapshot served right after an ingest that answered 200 returns as
\* latest the sample of that ingest (each channel as sent, a time stamp not
\* after the clock) and as alerts the alert list the ingest answered.
C7_SnapshotAfterIngest ==
    \A i, r \in Procs :
        (IsIngest(i) /\ resp[i].code = 200 /\ IsSnapshot(r) /\ Follows(r, i)) =>
            /\ resp[r].latest = MakeSample(req[i].body, resp[r].latest.ts)
            /\ resp[r].latest = resp[r].history[Len(resp[r].history)]
            /\ resp[r].alerts = resp[i].alerts

\* The end-to-end scenario, after an earlier ingest: {emg 950, accel_x 2,
\* gyro_y 10} answered ["High EMG"], and the snapshot shows emg 950 and
\* ["High EMG"].
C7_Witness ==
    \E i, r \in Procs :
        /\ IsIngest(i) /\ resp[i].code = 200 /\ IsSnapshot(r) /\ Follows(r, i)
        /\ req[i].body = E2EBody
        /\ resp[i].alerts = <<"High EMG">>
        /\ resp[r].latest.emg = 950 * Scale
        /\ resp[r].alerts = <<"High EMG">>
        /\ Len(resp[r].history) = 2

\* The alerts of a sample by the rules of the specification, as a set.
RuleAlerts(s) ==
    {a \in {"High EMG", "High Accel X", "High Gyro Y"} :
        \/ a = "High EMG" /\ s.emg > 900 * Scale
        \/ a = "High Accel X" /\ (s.accel_x > 8 * Scale \/ s.accel_x < -(8 * Scale))
        \/ a = "High Gyro Y" /\ (s.gyro_y > 200 * Scale \/ s.gyro_y < -(200 * Scale))}

\* C8: the alerts an ingest answers are those of the three rules (strictly
\* above 900, 8 and 200) applied to the sample it was sent, the alerts of a
\* snapshot are those of the rules applied to its latest, no other channel
\* adds an alert, and the snapshot right after an ingest names the same alerts.
C8_AlertRules ==
    /\ \A i \in Procs :
          (IsIngest(i) /\ resp[i].code = 200) =>
              /\ Range(resp[i].alerts) = RuleAlerts([k \in Channels |-> Sent(req[i].body, k)])
              /\ Len(resp[i].alerts) = Cardinality(Range(resp[i].alerts))
    /\ \A r \in Procs :
          IsSnapshot(r) =>
              /\ Range(resp[r].alerts) = RuleAlerts(resp[r].latest)
              /\ Len(resp[r].alerts) = Cardinality(Range(resp[r].alerts))
    /\ \A i, r \in Procs :
          (IsIngest(i) /\ resp[i].code = 200 /\ IsSnapshot(r) /\ Follows(r, i)) =>
              Range(resp[r].alerts) = Range(resp[i].alerts)

\* emg exactly 900 has been ingested without an alert, after an ingest of
\* six loud channels without emg that raised the two other alerts.
C8_Witness ==
    \E i, r, j \in Procs :
        /\ IsIngest(i) /\ resp[i].code = 200 /\ IsSnapshot(r) /\ Follows(r, i)
        /\ req[i].body = Obj([k \in Channels \ {"emg"} |-> Loud])
        /\ Range(resp[r].alerts) = {"High Accel X", "High Gyro Y"}
        /\ IsIngest(j) /\ Follows(j, r) /\ req[j].body = One("emg", Whole(900))
        /\ resp[j].code = 200 /\ resp[j].alerts = <<>>

\* A body that is a JSON object carrying a subset of the seven channels,
\* each with a number.
NumericSubset(body) ==
    /\ body.kind = "object" /\ DOMAIN body.f \subseteq Channels
    /\ \A k \in DOMAIN body.f : body.f[k].t = "num"

\* C10: an ingest whose body is an object carrying any subset of the seven
\* channels, the empty one included, answers 200 with status ok, and the
\* snapshot after it shows a sample with each channel as sent and each
\* missing channel 0.
C10_AnySubsetAccepted ==
    \A i \in Procs :
        (IsIngest(i) /\ NumericSubset(req[i].body)) =>
            /\ resp[i].code = 200 /\ resp[i].status = "ok"
            /\ \A r \in Procs :
                  (IsSnapshot(r) /\ Follows(r, i)) =>
                      \A k \in Channels : resp[r].latest[k] = Sent(req[i].body, k)

\* A body no sample can be built from: valid JSON that is no object, or an
\* object with a value that is no number (a text) under one of the channels.
Unparseable(body) ==
    \/ body.kind = "array"
    \/ body.kind = "object" /\ \E k \in DOMAIN body.f \cap Channels : body.f[k].t = "text"

IsClientError(code) == code \in 400..499

\* C11: an ingest whose body is valid JSON but no object, or carries a value
\* that is no number under a sensor channel, is answered with a client error
\* (a 4xx code), never with an unhandled fault, and the snapshots before and
\* after it return the same history.
C11_UnparseableRejected ==
    \A i \in Procs :
        (IsIngest(i) /\ Unparseable(req[i].body)) =>
            /\ IsClientError(resp[i].code)
            /\ \A b, a \in Procs :
                  (IsSnapshot(b) /\ IsSnapshot(a) /\ Follows(i, b) /\ Follows(a, i)) =>
                      resp[a].history = resp[b].history

\* C12: an ingest of an object with at least one channel and only numbers
\* answers 200 with status ok and the alerts of its sample also when the
\* commit to the database fails, its sample stays in the deque, and the
\* ingests after it are served as usual.
C12_SinkFailureIgnored ==
    \A i \in Procs :
        (IsIngest(i) /\ NumericSubset(req[i].body) /\ DOMAIN req[i].body.f # {}) =>
            /\ resp[i].code = 200 /\ resp[i].status = "ok"
            /\ Range(resp[i].alerts) = RuleAlerts([k \in Channels |-> Sent(req[i].body, k)])
            /\ \A r \in Procs :
                  (IsSnapshot(r) /\ Follows(r, i)) =>
                      \A k \in Channels : resp[r].latest[k] = Sent(req[i].body, k)

\* C13: a get_data that has been accepted while an ingest waits for its
\* commit to the database to return is not held up by it: its snapshot step
\* can be taken, whether or not the commit ever returns.
C13_SnapshotNotBlockedBySink ==
    \A r, i \in Procs :
        (pc[r] = "gd_lock" /\ pc[i] = "ud_commit") => ENABLED GetDataSnapshot(r)

\* A latest that is empty: an object without a channel.
EmptyLatest(x) == DOMAIN x = {}

\* A latest that is the placeholder: a time stamp and every channel 0.
PlaceholderLatest(x) ==
    DOMAIN x = Channels \cup {"ts"} /\ \A k \in Channels : x[k] = 0

\* C14 as stated: the latest of a snapshot is empty when its history is
\* empty, and otherwise it is a sample that was appended, the last one of the
\* history; it is never a sample nobody sent.
C14_LatestEmptyOrReal ==
    \A r \in Procs :
        IsSnapshot(r) =>
            IF resp[r].history = <<>>
            THEN EmptyLatest(resp[r].latest)
            ELSE resp[r].latest = resp[r].history[Len(resp[r].history)]

\* C14 amended: a snapshot whose history is empty, which happens only while
\* no sample has ever been appended (none committed, none refused by the
\* database), returns as latest a placeholder sample, every channel 0 and the
\* server's clock as ts, and not an empty value; a snapshot whose history is
\* not empty returns as latest the sample appended last.
C14_LatestPlaceholderOrLast ==
    /\ \A r \in Procs :
          pc[r] = "gd_query" =>
              /\ loc[r].history = sensor_history
              /\ (loc[r].history = <<>>) <=> (Len(sensor_rows) + nfail = 0)
              /\ (loc[r].history # <<>> /\ nfail = 0) =>
                     loc[r].latest = sensor_rows[Len(sensor_rows)]
    /\ \A r \in Procs :
          IsSnapshot(r) =>
              IF resp[r].history = <<>>
              THEN PlaceholderLatest(resp[r].latest) /\ resp[r].latest.ts \in 0..clock
              ELSE resp[r].latest = resp[r].history[Len(resp[r].history)]

\* A snapshot taken before any ingest has returned the placeholder stamped
\* with the advanced clock, and a snapshot taken after an ingest has returned
\* the sample of that ingest.
C14_Witness ==
    \E r, q \in Procs :
        /\ IsSnapshot(r) /\ resp[r].history = <<>>
        /\ PlaceholderLatest(resp[r].latest) /\ resp[r].latest.ts > 0
        /\ IsSnapshot(q) /\ Len(resp[q].history) = 1
        /\ resp[q].latest = resp[q].history[1] /\ resp[q].latest.emg = 950 * Scale

\* The body carries a number under key k.
Written(body, k) == k \in DOMAIN body.f /\ body.f[k].t = "num"

\* The body carries, under a recognised key, a value that is no number.
HasNonNumeric(body) ==
    body.kind = "object" /\ \E k \in DOMAIN body.f \cap RecognisedKeys : body.f[k].t # "num"

\* The six setpoints after a write of body over the setpoints before: the
\* motor's own number where the body carries one, else the number of
\* motor_all where the body carries one, else the setpoint as it was.
Expected(before, body) ==
    [m \in Motors |->
        IF Written(body, MotorKey(m)) THEN Clamped(TruncOf(body.f[MotorKey(m)].v))
        ELSE IF Written(body, "motor_all") THEN Clamped(TruncOf(body.f["motor_all"].v))
        ELSE before[m]]

\* C15 as stated: a therapist's set_command with a value that is no number
\* under motor_all or a per-motor key is answered with a client error and
\* changes no setpoint, also when the body carries numbers for other motors.
C15_NonNumericRejected ==
    \A w \in Procs :
        (IsWrite(w) /\ req[w].role = "therapist" /\ HasNonNumeric(req[w].body)) =>
            /\ IsClientError(resp[w].code)
            /\ \A b, a \in Procs :
                  ReadWriteRead(b, w, a) => resp[a].commands = resp[b].commands

\* C15 amended: a therapist's set_command with a value that is no number
\* under motor_all or a per-motor key answers 200 with status ok; the key with
\* that value is skipped and the numbers under the other recognised keys of
\* the body are applied as in a request without it; the response and the next
\* read carry the resulting setpoints.
C15_NonNumericSkipped ==
    \A w \in Procs :
        (IsWrite(w) /\ req[w].role = "therapist" /\ HasNonNumeric(req[w].body)) =>
            /\ resp[w].code = 200 /\ resp[w].status = "ok"
            /\ \A b, a \in Procs :
                  ReadWriteRead(b, w, a) =>
                      /\ resp[a].commands = Expected(resp[b].commands, req[w].body)
                      /\ resp[w].commands = resp[a].commands

\* {motor_all: "abc", motor2: 90} has been served over setpoints that were
\* all 180: motor 2 went to 90 and the others stayed.
C15_Witness ==
    \E b, w, a \in Procs :
        /\ ReadWriteRead(b, w, a) /\ req[w].role = "therapist"
        /\ req[w].body = Two("motor_all", Text, "motor2", Whole(90))
        /\ resp[w].code = 200
        /\ \A m \in Motors : resp[b].commands[m] = MotorMax
        /\ resp[a].commands = [resp[b].commands EXCEPT ![2] = 90]

\* C16: a therapist's set_command that answered 200 carries in its response
\* the setpoints that result from the write, the read served right after it
\* returns the same six values, every response with setpoints carries the
\* committed row of the moment it is sent, and a read served before any
\* write has been accepted or after a first write that was refused returns
\* six zeros.
C16_ReadsSeeLastWrite ==
    /\ [](\A w \in Procs :
             (IsWrite(w) /\ resp[w].code = 200) =>
                 /\ req[w].seq = 1 => resp[w].commands = Expected(ZeroCommands, req[w].body)
                 /\ \A r \in Procs :
                       (IsRead(r) /\ Follows(r, w)) => resp[r].commands = resp[w].commands
                 /\ \A b, a \in Procs :
                       ReadWriteRead(b, w, a) =>
                           resp[w].commands = Expected(resp[b].commands, req[w].body))
    /\ [](\A w, r \in Procs :
             (IsWrite(w) /\ req[w].seq = 1 /\ resp[w].code # 200 /\ IsRead(r) /\ Follows(r, w)) =>
                 resp[r].commands = ZeroCommands)
    /\ [][\A p \in Procs :
             (pc'[p] = "idle" /\ resp'[p] # resp[p] /\ resp'[p].code = 200
                /\ req'[p].kind \in {"set_command", "get_command", "get_data"}) =>
                 resp'[p].commands = command_row']_vars

\* {motor3: 90} has been written over setpoints that were all 180, its
\* response carries 180 and 90, and the read after it returns the same.
C16_Witness ==
    \E b, w, a \in Procs :
        /\ ReadWriteRead(b, w, a) /\ req[w].role = "therapist"
        /\ req[w].body = One("motor3", Whole(90))
        /\ \A m \in Motors : resp[b].commands[m] = MotorMax
        /\ resp[w].commands = [resp[b].commands EXCEPT ![3] = 90]
        /\ resp[a].commands = resp[w].commands

\* C17: every step that reads or changes the deque or the command row is
\* taken by the handler that holds the lock: a step that changes either
\* resource, and a step that puts the setpoints of the row into a handler's
\* local copy or response, is a step of the lock's holder; the lock has one
\* holder at a time.
C17_AllAccessUnderLock ==
    [][\A p \in Procs :
          (pc'[p] # pc[p] \/ req'[p] # req[p]) =>
              /\ (command_row' # command_row \/ sensor_history' # sensor_history)
                    => (lock = p \/ lock' = p)
              /\ (pc[p] \in {"sc_load", "sc_reply", "gd_query"}
                    \/ (req'[p].kind = "get_command" /\ req'[p] # req[p]))
                    => (lock = p \/ lock' = p)]_vars

\* Two therapists' writes that answered 200, the first two requests the
\* server has accepted: the setpoints were six zeros when both began.
FirstTwoWrites(p, q) ==
    /\ p # q /\ nreq = 2
    /\ IsWrite(p) /\ resp[p].code = 200
    /\ IsWrite(q) /\ resp[q].code = 200

\* C18: two set_command requests served at the same time leave the row as
\* serving one of them and then the other would, in one of the two orders;
\* no write of either is lost.
C18_WritesSerializable ==
    \A p, q \in Procs :
        FirstTwoWrites(p, q) =>
            \/ command_row = Expected(Expected(ZeroCommands, req[p].body), req[q].body)
            \/ command_row = Expected(Expected(ZeroCommands, req[q].body), req[p].body)

\* C19: whatever ingests run beside a get_data, its history is the deque of
\* one moment, its latest is the last element of that history when there is
\* one, its alerts are those of the rules applied to that latest, and once
\* the response is sent no later ingest changes it.
C19_SnapshotConsistent ==
    /\ [](\A r \in Procs :
             pc[r] = "gd_query" =>
                 /\ loc[r].history = sensor_history
                 /\ loc[r].history # <<>> => loc[r].latest = sensor_history[Len(sensor_history)])
    /\ [](\A r \in Procs :
             IsSnapshot(r) =>
                 /\ resp[r].history # <<>> =>
                        resp[r].latest = resp[r].history[Len(resp[r].history)]
                 /\ Range(resp[r].alerts) = RuleAlerts(resp[r].latest)
                 /\ Len(resp[r].alerts) = Cardinality(Range(resp[r].alerts)))
    /\ [][\A r \in Procs :
             (IsSnapshot(r) /\ req'[r] = req[r]) => resp'[r] = resp[r]]_vars

\* A snapshot returned one sample, accel_x -9, as history and as latest, and
\* High Accel X as its only alert, and an ingest of emg 950 appended since
\* has left it as it was.
C19_Witness ==
    \E r \in Procs :
        /\ IsSnapshot(r) /\ Len(resp[r].history) = 1
        /\ resp[r].latest = resp[r].history[1]
        /\ resp[r].latest.accel_x = -(9 * Scale)
        /\ resp[r].alerts = <<"High Accel X">>
        /\ Len(sensor_history) = 2
        /\ sensor_history[2].emg = 950 * Scale

\* The time stamps of a sequence of samples never decrease.
InTsOrder(h) == \A m, n \in 1..Len(h) : m < n => h[m].ts <= h[n].ts

\* At most one ingest has stamped its sample and not yet appended it.
OneIngestAtATime == Cardinality({p \in Procs : pc[p] = "ud_lock"}) <= 1

\* C20 as stated: whatever the interleaving of the ingests, the samples of
\* the deque are in non-decreasing order of ts, the clock never going back.
C20_HistoryInTsOrder == InTsOrder(sensor_history)

\* C20 amended: as long as no ingest stamps its sample while another one has
\* stamped its own and not yet appended it, the samples of the deque are in
\* non-decreasing order of ts; ingests that overlap may be appended against
\* the order of their stamps.
C20_InTsOrderWithoutOverlap == [](OneIngestAtATime) => [](InTsOrder(sensor_history))

\* Two samples stamped at different times are in the deque in the order of
\* their stamps.
C20_Witness ==
    /\ Len(sensor_history) = 2
    /\ sensor_history[1].ts < sensor_history[2].ts
    /\ OneIngestAtATime

InCritical(p) == pc[p] \in {"ud_commit", "gd_query"}
AtLock(p) == pc[p] \in {"ud_lock", "gd_lock"}

\* C21: the lock is held only by a handler inside its with block, every
\* update_data or get_data that has taken the lock gives it back, also when
\* the commit or a query inside the block raises, and every request that
\* waits for the lock gets it and is answered.
C21_LockAlwaysReleased ==
    /\ [](\A p \in Procs : lock = p <=> InCritical(p))
    /\ \A p \in Procs : (lock = p) ~> (lock = NoProc)
    /\ \A q \in Procs : AtLock(q) ~> Served(q)

\* A commit has raised and a query has raised, both requests were answered
\* 500, and a request accepted after them holds the lock.
C21_Witness ==
    \E p, q \in Procs :
        /\ nfail = 1 /\ lock = q /\ InCritical(q) /\ req[q].seq = 3
        /\ Served(p) /\ req[p].kind = "get_data" /\ resp[p].code = 500

\* The body is {motor_all: a, motork: b} and nothing else, a and b numbers.
IsAllAndOne(body, k) ==
    /\ body.kind = "object" /\ DOMAIN body.f = {"motor_all", MotorKey(k)}
    /\ body.f["motor_all"].t = "num" /\ body.f[MotorKey(k)].t = "num"

\* C22: the commit of a therapist's set_command whose body is {motor_all: a,
\* motork: b}, a and b numbers, leaves in one step motor k at the clamped b
\* and the five other motors at the clamped a, whatever other requests are
\* under way; no reader finds a part of it.
C22_AllThenOverride ==
    [][\A p \in Procs, k \in Motors :
          (pc[p] = "sc_commit" /\ pc'[p] = "sc_reply" /\ IsAllAndOne(req[p].body, k)) =>
              command_row' =
                  [m \in Motors |->
                      IF m = k THEN Clamped(TruncOf(req[p].body.f[MotorKey(k)].v))
                      ELSE Clamped(TruncOf(req[p].body.f["motor_all"].v))]]_vars

====
